---- MODULE Spec2Model ----
(***************************************************************************)
(* Model of src/bin/calculate_pclmulqdq_artifacts.rs: the generator of the *)
(* CRC-64 PCLMULQDQ constants (fold keys, mu, reciprocal polynomial).      *)
(*                                                                         *)
(* A u64 is modelled as the set of the positions of its 1 bits, a subset   *)
(* of 0..63: TLC's integers are 32 bits wide, and every operation of the   *)
(* program on a u64 is a shift, an AND, an OR, an XOR, or a wrapping       *)
(* subtraction.  Bits shifted beyond position 63 are dropped, as by the    *)
(* machine.                                                                *)
(***************************************************************************)
EXTENDS Integers, Sequences, FiniteSets, TLC

VARIABLES
    pc,          \* main: position in the program
    args,        \* main: env::args(), args[1] the program name (Rust's args[0])
    polynomial,  \* main: the parsed polynomial; harness: the polynomial passed
    idx,         \* main: position in KEY_SIZES of the next key to print
    output,      \* main: the lines printed on stdout so far
    call,        \* harness: the function called last
    exponent,    \* harness: the exponent passed
    ret,         \* harness: the value the call returned
    steps        \* harness: loop iterations the call of generate_key ran

vars == <<pc, args, polynomial, idx, output, call, exponent, ret, steps>>

---------------------------------------------------------------------------
\* KEY_SIZES with 1024 and 1088 in the wrong order.
KEY_SIZES_Unordered ==
    <<128, 192, 256, 320, 384, 448, 512, 576,
      640, 704, 768, 832, 896, 960, 1088, 1024>>

KEY_SIZES ==
    <<128, 192, 256, 320, 384, 448, 512, 576,
      640, 704, 768, 832, 896, 960, 1024, 1088>>

---------------------------------------------------------------------------
(* u64 arithmetic *)

U64_BITS == 64

Bits == 0 .. (U64_BITS - 1)

Zero == {}

One == {0}

Shl(v, k) == {i + k : i \in {j \in v : j + k < U64_BITS}}

Shr(v, k) == {i - k : i \in {j \in v : j >= k}}

And(a, b) == a \cap b

Or(a, b) == a \cup b

Xor(a, b) == (a \ b) \cup (b \ a)

\* The borrow into bit i of a - b: the low i bits of a are less than the low
\* i bits of b, that is, the highest bit below i where they differ is set in b.
Borrow(a, b, i) ==
    LET differ == {k \in Xor(a, b) : k < i}
    IN  differ # {} /\ (CHOOSE k \in differ : \A l \in differ : l <= k) \in b

\* a.saturating_sub(b) for a = 0 or b = 0: the mask is never all-ones.
wrapping_sub_Saturating(a, b) == IF b = Zero THEN a ELSE Zero

\* a.wrapping_sub(b): a - b modulo 2^64.
wrapping_sub(a, b) ==
    IF b = Zero THEN a
    ELSE {i \in Bits : ((i \in a) # (i \in b)) # Borrow(a, b, i)}

\* A 16-bit limb placed at bit offset off.
Limb(x, off) == {off + i : i \in {j \in 0 .. 15 : (x \div (2 ^ j)) % 2 = 1}}

\* The u64 literal 0x<a><b><c><d>, four 16-bit limbs, most significant first.
U64(a, b, c, d) == Limb(a, 48) \cup Limb(b, 32) \cup Limb(c, 16) \cup Limb(d, 0)

---------------------------------------------------------------------------
(* bit_reverse *)

\* An iteration of bit_reverse that shifts reversed after the OR, not before.
ReverseStep_ShiftsLate(st) ==
    [reversed |-> Shl(Or(st.reversed, And(st.forward, One)), 1),
     forward  |-> Shr(st.forward, 1)]

\* One iteration of the loop of bit_reverse.
ReverseStep(st) ==
    [reversed |-> Or(Shl(st.reversed, 1), And(st.forward, One)),
     forward  |-> Shr(st.forward, 1)]

\* The loop `for _ in 0..64`: i iterations from the state st, run as two
\* consecutive runs of i \div 2 and i - i \div 2 iterations, which keeps the
\* depth of the evaluation logarithmic in i; the test mid = mid makes TLC
\* evaluate the first run before it starts the second.
RECURSIVE ReverseLoop(_, _)
ReverseLoop(i, st) ==
    IF i = 0 THEN st
    ELSE IF i = 1 THEN ReverseStep(st)
    ELSE LET half == i \div 2
             mid  == ReverseLoop(half, st)
         IN  IF mid = mid THEN ReverseLoop(i - half, mid) ELSE mid

bit_reverse(forward) ==
    ReverseLoop(64, [reversed |-> Zero, forward |-> forward]).reversed

---------------------------------------------------------------------------
(* generate_mu *)

\* One iteration of the loop of generate_mu.
MuStep(st, poly) ==
    LET q1   == Shl(st.quotient, 1)
        q2   == IF st.numerator_high # Zero THEN Or(q1, One) ELSE q1
        low2 == IF st.numerator_high # Zero THEN Xor(st.numerator_low, poly)
                                                 ELSE st.numerator_low
    IN  [numerator_high |-> Shr(low2, 63),
         numerator_low  |-> Shl(low2, 1),
         quotient       |-> q2]

\* The loop `for _ in 0..64`, run as ReverseLoop is.
RECURSIVE MuLoop(_, _, _)
MuLoop(i, st, poly) ==
    IF i = 0 THEN st
    ELSE IF i = 1 THEN MuStep(st, poly)
    ELSE LET half == i \div 2
             mid  == MuLoop(half, st, poly)
         IN  IF mid = mid THEN MuLoop(i - half, mid, poly) ELSE mid

\* generate_mu without the final bit_reverse.
generate_mu_Unreflected(poly) ==
    MuLoop(64, [numerator_high |-> One,
                numerator_low  |-> Zero,
                quotient       |-> Zero], poly).quotient

generate_mu(poly) ==
    bit_reverse(MuLoop(64, [numerator_high |-> One,
                            numerator_low  |-> Zero,
                            quotient       |-> Zero], poly).quotient)

---------------------------------------------------------------------------
(* generate_key *)

\* n = 0x8000000000000000
KeyStart == {63}

\* A step that tests bit 62 of n, not bit 63.
KeyStep_TestsBit62(n, poly) ==
    Xor(Shl(n, 1), And(wrapping_sub(Zero, And(Shr(n, 62), One)), poly))

KeyStep(n, poly) == Xor(Shl(n, 1), And(wrapping_sub(Zero, Shr(n, 63)), poly))

\* The loop `for _ in 0..e`: KeyStep applied i times to n, run as ReverseLoop is.
RECURSIVE KeyLoop(_, _, _)
KeyLoop(i, n, poly) ==
    IF i = 0 THEN n
    ELSE IF i = 1 THEN KeyStep(n, poly)
    ELSE LET half == i \div 2
             mid  == KeyLoop(half, n, poly)
         IN  IF mid = mid THEN KeyLoop(i - half, mid, poly) ELSE mid

\* generate_key with the loop run exponent - 63 times.
generate_key_run_OneMoreStep(exp, poly) ==
    IF exp <= 64 THEN [value |-> Zero, steps |-> 0]
    ELSE LET e == exp - 63
         IN  [value |-> bit_reverse(KeyLoop(e, KeyStart, poly)), steps |-> e]

\* generate_key with the guard exponent < 64.
generate_key_run_StrictGuard(exp, poly) ==
    IF exp < 64 THEN [value |-> Zero, steps |-> 0]
    ELSE LET e == exp - 64
         IN  [value |-> bit_reverse(KeyLoop(e, KeyStart, poly)), steps |-> e]

\* generate_key with the count of the iterations its loop ran.
generate_key_run(exp, poly) ==
    IF exp <= 64 THEN [value |-> Zero, steps |-> 0]
    ELSE LET e == exp - 64
         IN  [value |-> bit_reverse(KeyLoop(e, KeyStart, poly)), steps |-> e]

generate_key(exp, poly) == generate_key_run(exp, poly).value

---------------------------------------------------------------------------
(* generate_reciprocal_polynomial *)

\* generate_reciprocal_polynomial without the low bit set.
generate_reciprocal_polynomial_NoLowBit(poly) == Shl(bit_reverse(poly), 1)

generate_reciprocal_polynomial(poly) == Or(Shl(bit_reverse(poly), 1), One)

---------------------------------------------------------------------------
(* main: the command line *)

DecChars == <<"0", "1", "2", "3", "4", "5", "6", "7", "8", "9">>

LowerChars == <<"a", "b", "c", "d", "e", "f">>

UpperChars == <<"A", "B", "C", "D", "E", "F">>

\* The position of c in the sequence chars, 0 when c is not in it.
IndexOf(c, chars) ==
    IF \E k \in DOMAIN chars : chars[k] = c
    THEN CHOOSE k \in DOMAIN chars : chars[k] = c
    ELSE 0

\* char::to_digit(16): the value of a hexadecimal digit, -1 for None.
to_digit(c) ==
    IF IndexOf(c, DecChars) # 0 THEN IndexOf(c, DecChars) - 1
    ELSE IF IndexOf(c, LowerChars) # 0 THEN IndexOf(c, LowerChars) + 9
    ELSE IF IndexOf(c, UpperChars) # 0 THEN IndexOf(c, UpperChars) + 9
    ELSE -1

\* str::trim_start_matches(pat): the prefix pat is removed as often as it
\* occurs at the start.
RECURSIVE trim_start_matches(_, _)
trim_start_matches(str, pat) ==
    IF Len(str) >= Len(pat) /\ SubSeq(str, 1, Len(pat)) = pat
    THEN trim_start_matches(SubSeq(str, Len(pat) + 1, Len(str)), pat)
    ELSE str

\* The digit loop of u64::from_str_radix(_, 16): result = result * 16 + digit,
\* both checked.  After the multiplication the low four bits are 0, so the
\* addition of a digit cannot overflow and sets these bits.
RECURSIVE ParseDigits(_, _, _)
ParseDigits(digits, k, result) ==
    IF k > Len(digits) THEN [ok |-> TRUE, value |-> result, kind |-> "Ok"]
    ELSE IF to_digit(digits[k]) = -1
         THEN [ok |-> FALSE, value |-> Zero, kind |-> "InvalidDigit"]
    ELSE IF And(result, 60 .. 63) # Zero
         THEN [ok |-> FALSE, value |-> Zero, kind |-> "PosOverflow"]
    ELSE LET next == Or(Shl(result, 4), Limb(to_digit(digits[k]), 0))
         IN  IF next = next THEN ParseDigits(digits, k + 1, next)
             ELSE [ok |-> FALSE, value |-> Zero, kind |-> "Unreachable"]

\* u64::from_str_radix(src, 16): one leading "+" is accepted, "-" is not a
\* digit of an unsigned type.
from_str_radix(src) ==
    IF src = <<>> THEN [ok |-> FALSE, value |-> Zero, kind |-> "Empty"]
    ELSE IF Len(src) = 1 /\ src[1] \in {"+", "-"}
         THEN [ok |-> FALSE, value |-> Zero, kind |-> "InvalidDigit"]
    ELSE ParseDigits(IF src[1] = "+" THEN Tail(src) ELSE src, 1, Zero)

\* u64::from_str_radix(&args[1].trim_start_matches("0x"), 16)
ParsePolynomial(arg) == from_str_radix(trim_start_matches(arg, <<"0", "x">>))

\* The value of the four bits of v from bit 4 * k.
Nibble(v, k) ==
    (IF 4 * k \in v THEN 1 ELSE 0) + (IF 4 * k + 1 \in v THEN 2 ELSE 0)
        + (IF 4 * k + 2 \in v THEN 4 ELSE 0) + (IF 4 * k + 3 \in v THEN 8 ELSE 0)

\* The position of the highest nibble of v that is not 0 (0 for v = 0).
TopNibble(v) ==
    IF v = Zero THEN 0 ELSE (CHOOSE i \in v : \A j \in v : j <= i) \div 4

\* format!("{:x}", v): lowercase hexadecimal digits, no padding.
LowerHex(v) ==
    [j \in 1 .. (TopNibble(v) + 1) |->
        (DecChars \o LowerChars)[Nibble(v, TopNibble(v) + 1 - j) + 1]]

\* println!("k_{} = 0x{:x}", size, key)
KeyLine(size, key) == [label |-> "k_" \o ToString(size), text |-> LowerHex(key)]

\* println!("mu = 0x{:x}", mu)
MuLine(mu) == [label |-> "mu", text |-> LowerHex(mu)]

\* println!("reciprocal = 0x{:x}", reciprocal)
ReciprocalLine(reciprocal) == [label |-> "reciprocal", text |-> LowerHex(reciprocal)]

\* println!("Usage: {} [POLYNOMIAL_HEX]", args[0])
UsageLine(program) == [label |-> "Usage", text |-> <<program>>]

---------------------------------------------------------------------------
(* The command lines the program is run with *)

MaxArgLen == 3

ArgAlphabet == {"0", "1", "x", "X", "+", "g"}

ShortArgs == UNION {[1 .. n -> ArgAlphabet] : n \in 0 .. MaxArgLen}

ARG_NVME == <<"0", "x", "A", "D", "9", "3", "D", "2", "3", "5", "9", "4", "C", "9", "3", "6", "5", "9">>

ARG_ECMA == <<"0", "x", "4", "2", "F", "0", "E", "1", "E", "B", "A", "9", "E", "A", "3", "6", "9", "3">>

ARG_NVME_LOWER == <<"a", "d", "9", "3", "d", "2", "3", "5", "9", "4", "c", "9", "3", "6", "5", "9">>

ARG_ECMA_UPPER_PREFIX == <<"0", "X", "4", "2", "F", "0", "E", "1", "E", "B", "A", "9", "E", "A", "3", "6", "9", "3">>

ARG_MAX == <<"0", "x", "f", "f", "f", "f", "f", "f", "f", "f", "f", "f", "f", "f", "f", "f", "f", "f">>

ARG_OVERFLOW == <<"0", "x", "1", "0", "0", "0", "0", "0", "0", "0", "0", "0", "0", "0", "0", "0", "0", "0", "0">>

ARG_LEADING_ZERO == <<"0", "x", "0", "0", "0", "0", "0", "0", "0", "0", "0", "0", "0", "0", "0", "0", "0", "0", "1">>

ARG_REPEATED_PREFIX == <<"0", "x", "0", "x", "1">>

ARG_XYZ == <<"x", "y", "z">>

ARG_PLUS == <<"+", "1", "F">>

ARG_MINUS == <<"-", "1">>

LongArgs ==
    {ARG_NVME, ARG_ECMA, ARG_NVME_LOWER, ARG_ECMA_UPPER_PREFIX, ARG_MAX,
     ARG_OVERFLOW, ARG_LEADING_ZERO, ARG_REPEATED_PREFIX, ARG_XYZ, ARG_PLUS,
     ARG_MINUS}

Program == "calculate_pclmulqdq_artifacts"

\* env::args(): the program name, then the arguments; a second argument is
\* never read.
ArgVectors ==
    {<<Program>>}
        \cup {<<Program, a>> : a \in ShortArgs \cup LongArgs}
        \cup {<<Program, a, ARG_XYZ>> : a \in {ARG_NVME, ARG_XYZ}}

---------------------------------------------------------------------------
(* main *)

Init ==
    /\ args \in ArgVectors
    /\ pc = "start"
    /\ polynomial = Zero
    /\ idx = 1
    /\ output = <<>>
    /\ call = "none"
    /\ exponent = 0
    /\ ret = Zero
    /\ steps = 0

\* args.len() == 1: the usage line, and return.
Usage ==
    /\ pc = "start"
    /\ Len(args) = 1
    /\ output' = Append(output, UsageLine(args[1]))
    /\ pc' = "exit"
    /\ UNCHANGED <<args, polynomial, idx, call, exponent, ret, steps>>

\* The polynomial is parsed from args[1] (here args[2]).
Parse ==
    /\ pc = "start"
    /\ Len(args) > 1
    /\ ParsePolynomial(args[2]).ok
    /\ polynomial' = ParsePolynomial(args[2]).value
    /\ pc' = "keys"
    /\ UNCHANGED <<args, idx, output, call, exponent, ret, steps>>

\* expect("Failed to parse polynomial") panics on Err.
ParsePanic ==
    /\ pc = "start"
    /\ Len(args) > 1
    /\ ~ParsePolynomial(args[2]).ok
    /\ pc' = "panic"
    /\ UNCHANGED <<args, polynomial, idx, output, call, exponent, ret, steps>>

\* After the key at position i of KEY_SIZES: the next key, or mu.
AfterKey(i) == IF i < Len(KEY_SIZES) THEN "keys" ELSE "mu"

\* One iteration of the loop over KEY_SIZES.
PrintKey ==
    /\ pc = "keys"
    /\ idx <= Len(KEY_SIZES)
    /\ output' = Append(output,
                        KeyLine(KEY_SIZES[idx], generate_key(KEY_SIZES[idx], polynomial)))
    /\ idx' = idx + 1
    /\ pc' = AfterKey(idx)
    /\ UNCHANGED <<args, polynomial, call, exponent, ret, steps>>

PrintMu ==
    /\ pc = "mu"
    /\ output' = Append(output, MuLine(generate_mu(polynomial)))
    /\ pc' = "reciprocal"
    /\ UNCHANGED <<args, polynomial, idx, call, exponent, ret, steps>>

PrintReciprocal ==
    /\ pc = "reciprocal"
    /\ output' = Append(output, ReciprocalLine(generate_reciprocal_polynomial(polynomial)))
    /\ pc' = "exit"
    /\ UNCHANGED <<args, polynomial, idx, call, exponent, ret, steps>>

Next ==
    \/ Usage
    \/ Parse
    \/ ParsePanic
    \/ PrintKey
    \/ PrintMu
    \/ PrintReciprocal

Spec == Init /\ [][Next]_vars

---------------------------------------------------------------------------
(* The functions called on their own: Init draws the polynomial, one action
   per function applies it (generate_key to each exponent) and records what
   it returned. *)

MaxExponent == 160

NumSeeds == 5

NVME == U64(\hAD93, \hD235, \h94C9, \h3659)

ECMA == U64(\h42F0, \hE1EB, \hA9EA, \h3693)

AllOnes == Bits

TopBit == {63}

Alternating == U64(\hAAAA, \hAAAA, \hAAAA, \hAAAA)

\* Further inputs: bit patterns without structure.
SeedPoly(k) == {i \in Bits : (i * i * (2 * k + 1) + i * k + k) % 11 \in {0, 1, 3, 4, 8}}

Polys ==
    {Zero, One, TopBit, AllOnes, Alternating, NVME, ECMA}
        \cup {SeedPoly(k) : k \in 1 .. NumSeeds}

Exponents == (0 .. MaxExponent) \cup {KEY_SIZES[k] : k \in DOMAIN KEY_SIZES}

InitFn ==
    /\ polynomial \in Polys
    /\ exponent = 0
    /\ call = "none"
    /\ ret = Zero
    /\ steps = 0
    /\ pc = "harness"
    /\ args = <<>>
    /\ idx = 0
    /\ output = <<>>

CallBitReverse ==
    /\ call = "none"
    /\ call' = "bit_reverse"
    /\ ret' = bit_reverse(polynomial)
    /\ UNCHANGED <<pc, args, polynomial, idx, output, exponent, steps>>

CallGenerateMu ==
    /\ call = "none"
    /\ call' = "generate_mu"
    /\ ret' = generate_mu(polynomial)
    /\ UNCHANGED <<pc, args, polynomial, idx, output, exponent, steps>>

CallGenerateKey ==
    /\ call = "none"
    /\ \E e \in Exponents :
           LET run == generate_key_run(e, polynomial)
           IN  /\ exponent' = e
               /\ ret' = run.value
               /\ steps' = run.steps
    /\ call' = "generate_key"
    /\ UNCHANGED <<pc, args, polynomial, idx, output>>

CallGenerateReciprocalPolynomial ==
    /\ call = "none"
    /\ call' = "generate_reciprocal_polynomial"
    /\ ret' = generate_reciprocal_polynomial(polynomial)
    /\ UNCHANGED <<pc, args, polynomial, idx, output, exponent, steps>>

NextFn ==
    \/ CallBitReverse
    \/ CallGenerateMu
    \/ CallGenerateKey
    \/ CallGenerateReciprocalPolynomial

SpecFn == InitFn /\ [][NextFn]_vars

---------------------------------------------------------------------------
(* The golden tables of the tests generate_key_tests, in the order of KEY_SIZES. *)

NVME_KEYS ==
    <<U64(\h21e9, \h761e, \h2526, \h21ac),
      U64(\headc, \h41fd, \h2ba3, \hd420),
      U64(\he1e0, \hbb9d, \h45d7, \ha44c),
      U64(\hb0bc, \h2e58, \h9204, \hf500),
      U64(\ha3ff, \hdc1f, \he8e8, \h2a8b),
      U64(\hbdd7, \hac0e, \he1a4, \ha0f0),
      U64(\h6224, \h2240, \hace5, \h045a),
      U64(\h0c32, \hcdb3, \h1e18, \ha84a),
      U64(\h0336, \h3823, \he6e7, \h91e5),
      U64(\h7b0a, \hb10d, \hd0f8, \h09fe),
      U64(\h34f5, \ha24e, \h22d6, \h6e90),
      U64(\h3c25, \h5f5e, \hbc41, \h4423),
      U64(\h9465, \h8840, \h3d4a, \hdcbc),
      U64(\hd083, \hdd59, \h4d96, \h319d),
      U64(\h5f85, \h2fb6, \h1e8d, \h92dc),
      U64(\ha1ca, \h681e, \h733f, \h9c40)>>

ECMA_KEYS ==
    <<U64(\hdabe, \h95af, \hc787, \h5f40),
      U64(\he05d, \hd497, \hca39, \h3ae4),
      U64(\h3be6, \h53a3, \h0fe1, \haf51),
      U64(\h6009, \h5b00, \h8a9e, \hfa44),
      U64(\h69a3, \h5d91, \hc373, \h0254),
      U64(\hb5ea, \h1af9, \hc013, \haca4),
      U64(\h081f, \h6054, \ha784, \h2df4),
      U64(\h6ae3, \hefbb, \h9dd4, \h41f3),
      U64(\h0e31, \hd519, \h421a, \h63a5),
      U64(\h2e30, \h2032, \h12ca, \hc325),
      U64(\he4ce, \h2cd5, \h5fea, \h0037),
      U64(\h2fe3, \hfd29, \h20ce, \h82ec),
      U64(\h9478, \h74de, \h5950, \h52cb),
      U64(\h9e73, \h5cb5, \h9b47, \h24da),
      U64(\hd7d8, \h6b2a, \hf73d, \he740),
      U64(\h8757, \hd71d, \h4fcc, \h1000)>>

---------------------------------------------------------------------------
(* Polynomials over GF(2) as the sets of the exponents of their terms, of any
   degree: the arithmetic the properties below are stated in. *)

\* The 64-bit coefficient vector v read with bit i at position 63 - i.
Mirror(v) == {63 - i : i \in v}

\* The generator x^64 + p(x), bit i of p the coefficient of x^i.
Generator(p) == {64} \cup p

\* One step of the long division by x^64 + p(x): cancel the term x^d.
DivStep(st, d, p) ==
    IF d \in st.rem
    THEN [rem  |-> Xor(st.rem, {d - 64 + i : i \in Generator(p)}),
          quot |-> st.quot \cup {d - 64}]
    ELSE st

\* The steps for the terms x^hi down to x^lo, the upper half of them first.
RECURSIVE DivLoop(_, _, _, _)
DivLoop(hi, lo, st, p) ==
    IF hi < lo THEN st
    ELSE IF hi = lo THEN DivStep(st, hi, p)
    ELSE LET mid   == (hi + lo) \div 2
             upper == DivLoop(hi, mid + 1, st, p)
         IN  IF upper = upper THEN DivLoop(mid, lo, upper, p) ELSE upper

\* Quotient and remainder of x^m by x^64 + p(x).
DivMod(m, p) == DivLoop(m, 64, [rem |-> {m}, quot |-> {}], p)

\* x^m mod (x^64 + p(x)), a 64-bit coefficient vector.
PowMod(m, p) == DivMod(m, p).rem

\* floor(x^m / (x^64 + p(x))).
PowDiv(m, p) == DivMod(m, p).quot

\* The position of an exponent in KEY_SIZES.
KeyIndex(exp) == CHOOSE k \in DOMAIN KEY_SIZES : KEY_SIZES[k] = exp

KeySizes == {KEY_SIZES[k] : k \in DOMAIN KEY_SIZES}

\* One step of the recurrence of the keys in the reflected domain.
ReflectedStep(k, p) == Xor(Shr(k, 1), IF 0 \in k THEN bit_reverse(p) ELSE Zero)

---------------------------------------------------------------------------
(* Properties of the functions, under SpecFn *)

\* C1 as stated: for every exponent e > 64 and every polynomial p,
\* generate_key(e, p) is the bit-reversal of the coefficient vector of
\* x^e mod (x^64 + p(x)).
C1_KeyIsReflectedPowerE ==
    (call = "generate_key" /\ exponent > 64)
        => ret = Mirror(PowMod(exponent, polynomial))

\* C1 amended: for every exponent e > 64 and every polynomial p,
\* generate_key(e, p) is the bit-reversal of the coefficient vector of
\* x^(e-1) mod (x^64 + p(x)): the loop starts from x^63 and multiplies by x
\* e - 64 times.
C1_KeyIsReflectedPowerEMinus1 ==
    (call = "generate_key" /\ exponent > 64)
        => ret = Mirror(PowMod(exponent - 1, polynomial))

C1_Witness ==
    /\ call = "generate_key"
    /\ exponent = 192
    /\ polynomial = NVME
    /\ ret = NVME_KEYS[2]
    /\ ret = Mirror(PowMod(191, NVME))

\* C2: for every polynomial p, 0 included, generate_mu(p) is the bit-reversal
\* of the 64-bit quotient floor(x^127 / (x^64 + p(x))), the quotient of the 64
\* steps of long division; generate_mu(0x42F0E1EBA9EA3693) = 0x9c3e466c172963d5
\* and generate_mu(0xAD93D23594C93659) = 0x27ecfa329aef9f77.
C2_MuIsReflectedQuotient ==
    call = "generate_mu" =>
        /\ ret = Mirror(PowDiv(127, polynomial))
        /\ polynomial = ECMA => ret = U64(\h9c3e, \h466c, \h1729, \h63d5)
        /\ polynomial = NVME => ret = U64(\h27ec, \hfa32, \h9aef, \h9f77)

C2_Witness ==
    /\ call = "generate_mu"
    /\ polynomial = NVME
    /\ ret = U64(\h27ec, \hfa32, \h9aef, \h9f77)

\* C3: for each of the 16 exponents 128, 192, ..., 1088, generate_key returns
\* the entry of the golden table, for the NVME and for the ECMA polynomial.
C3_GoldenKeys ==
    (call = "generate_key" /\ exponent \in KeySizes) =>
        /\ polynomial = NVME => ret = NVME_KEYS[KeyIndex(exponent)]
        /\ polynomial = ECMA => ret = ECMA_KEYS[KeyIndex(exponent)]

C3_Witness ==
    /\ call = "generate_key"
    /\ exponent = 1088
    /\ polynomial = ECMA
    /\ ret = U64(\h8757, \hd71d, \h4fcc, \h1000)

C5_ShortCircuit ==
    (call = "generate_key" /\ exponent <= 64) => (ret = Zero /\ steps = 0)

C5_Witness ==
    /\ call = "generate_key"
    /\ exponent = 64
    /\ polynomial = NVME
    /\ ret = Zero
    /\ steps = 0

\* C6: generate_reciprocal_polynomial(p) = ((bit_reverse(p) << 1) | 1) in 64
\* bits: bit 0 of the result is 1, bit i is bit 64 - i of p for 1 <= i <= 63,
\* bit 0 of p has no influence; 0xAD93D23594C93659 -> 0x34d926535897936b and
\* 0x42F0E1EBA9EA3693 -> 0x92d8af2baf0e1e85.
C6_Reciprocal ==
    call = "generate_reciprocal_polynomial" =>
        /\ ret = {0} \cup {i + 1 : i \in Mirror(polynomial) \ {63}}
        /\ 0 \in ret
        /\ \A i \in 1 .. 63 : (i \in ret) <=> ((64 - i) \in polynomial)
        /\ generate_reciprocal_polynomial(Xor(polynomial, One)) = ret
        /\ polynomial = NVME => ret = U64(\h34d9, \h2653, \h5897, \h936b)
        /\ polynomial = ECMA => ret = U64(\h92d8, \haf2b, \haf0e, \h1e85)

C6_Witness ==
    /\ call = "generate_reciprocal_polynomial"
    /\ polynomial = ECMA
    /\ 0 \in polynomial
    /\ ret = U64(\h92d8, \haf2b, \haf0e, \h1e85)

\* C10 as stated: for every polynomial p, generate_key(65, p) = bit_reverse(p);
\* for every e > 64, generate_key(e + 1, p) is one step of the recurrence from
\* generate_key(e, p); and from e = 64, where generate_key returns 0, the
\* recurrence does not hold.
C10_RecurrenceFailsAt64 ==
    call = "generate_key" =>
        /\ exponent = 65 => ret = bit_reverse(polynomial)
        /\ exponent > 64 =>
               generate_key(exponent + 1, polynomial) = ReflectedStep(ret, polynomial)
        /\ exponent = 64 =>
               generate_key(exponent + 1, polynomial) # ReflectedStep(ret, polynomial)

\* C10 amended: as stated, except that from e = 64 the recurrence fails exactly
\* for the polynomials p # 0; for p = 0 both sides are 0 and it holds.
C10_RecurrenceFailsAt64UnlessZero ==
    call = "generate_key" =>
        /\ exponent = 65 => ret = bit_reverse(polynomial)
        /\ exponent > 64 =>
               generate_key(exponent + 1, polynomial) = ReflectedStep(ret, polynomial)
        /\ exponent = 64 =>
               ((generate_key(exponent + 1, polynomial) # ReflectedStep(ret, polynomial))
                    <=> polynomial # Zero)

C10_Witness ==
    /\ call = "generate_key"
    /\ exponent = 66
    /\ polynomial = NVME
    /\ 0 \in U64(\h9a6c, \h9329, \hac4b, \hc9b5)
    /\ ret = Xor(Shr(U64(\h9a6c, \h9329, \hac4b, \hc9b5), 1),
                 U64(\h9a6c, \h9329, \hac4b, \hc9b5))

---------------------------------------------------------------------------
(* The command-line grammar the properties of main are stated in *)

HexDigitChars ==
    {"0", "1", "2", "3", "4", "5", "6", "7", "8", "9",
     "a", "b", "c", "d", "e", "f", "A", "B", "C", "D", "E", "F"}

\* The value of a hexadecimal digit, either case.
HexDigitValue(c) ==
    CASE c \in {"a", "A"} -> 10
      [] c \in {"b", "B"} -> 11
      [] c \in {"c", "C"} -> 12
      [] c \in {"d", "D"} -> 13
      [] c \in {"e", "E"} -> 14
      [] c \in {"f", "F"} -> 15
      [] OTHER -> CHOOSE v \in 0 .. 9 : ToString(v) = c

\* The argument without its prefix, when it starts with one of prefixes.
Unprefixed(arg, prefixes) ==
    IF Len(arg) >= 2 /\ SubSeq(arg, 1, 2) \in prefixes
    THEN SubSeq(arg, 3, Len(arg))
    ELSE arg

\* The number a string of hexadecimal digits denotes, as the set of its 1
\* bits (of any position: the number may exceed 64 bits).
HexNumber(digits) ==
    UNION {Limb(HexDigitValue(digits[k]), 4 * (Len(digits) - k)) : k \in DOMAIN digits}

\* An optional prefix, then one or more hexadecimal digits, the number in 64 bits.
WellFormed(arg, prefixes) ==
    LET digits == Unprefixed(arg, prefixes)
    IN  /\ Len(digits) >= 1
        /\ \A k \in DOMAIN digits : digits[k] \in HexDigitChars
        /\ HexNumber(digits) \subseteq Bits

BothPrefixes == {<<"0", "x">>, <<"0", "X">>}

LowerPrefix == {<<"0", "x">>}

\* The labels of the lines of a complete output: k_128, k_192, ..., k_1088,
\* mu, reciprocal.
ExpectedLabels ==
    [i \in 1 .. 18 |->
        IF i <= 16 THEN "k_" \o ToString(64 * (i + 1))
        ELSE IF i = 17 THEN "mu" ELSE "reciprocal"]

Labels(lines) == [i \in DOMAIN lines |-> lines[i].label]

\* The argument was parsed: the program is printing, or has printed, the constants.
Parsed == pc \in {"keys", "mu", "reciprocal"} \/ (pc = "exit" /\ Len(args) > 1)

---------------------------------------------------------------------------
(* Properties of main, under Spec *)

\* C7: run with an argument that parses, the program emits exactly 18 lines:
\* the 16 lines k_128, ..., k_1088 in ascending order, then mu, then
\* reciprocal; no mu or reciprocal line before the 16 key lines, no line twice.
C7_OutputOrder ==
    Parsed =>
        /\ Len(output) <= 18
        /\ Labels(output) = SubSeq(ExpectedLabels, 1, Len(output))
        /\ \A i, j \in DOMAIN output : output[i].label = output[j].label => i = j
        /\ \A i \in DOMAIN output :
               output[i].label \in {"mu", "reciprocal"} => i > Len(KEY_SIZES)
        /\ pc = "exit" => Len(output) = 18

C7_Witness ==
    /\ pc = "exit"
    /\ args = <<Program, ARG_NVME>>
    /\ Len(output) = 18
    /\ output[1] = [label |-> "k_128", text |-> <<"2", "1", "e", "9", "7", "6", "1", "e", "2", "5", "2", "6", "2", "1", "a", "c">>]
    /\ output[17] = [label |-> "mu", text |-> <<"2", "7", "e", "c", "f", "a", "3", "2", "9", "a", "e", "f", "9", "f", "7", "7">>]
    /\ output[18] = [label |-> "reciprocal", text |-> <<"3", "4", "d", "9", "2", "6", "5", "3", "5", "8", "9", "7", "9", "3", "6", "b">>]

\* C8: every single argument made of an optional prefix 0x or 0X and
\* hexadecimal digits of either case, its value in 64 bits, is parsed to that
\* value, and the program goes on to print the constants; for 0X as for 0x.
C8_PrefixedHexIsParsed ==
    (pc # "start" /\ Len(args) = 2 /\ WellFormed(args[2], BothPrefixes)) =>
        /\ pc # "panic"
        /\ polynomial = HexNumber(Unprefixed(args[2], BothPrefixes))

\* C9: a single argument that is not an optionally 0x-prefixed hexadecimal
\* representation of an unsigned 64-bit integer (a character that is no
\* hexadecimal digit after the one optional prefix, such as a leading + or a
\* repeated prefix; nothing after the prefix; a value beyond 64 bits) ends the
\* program with the parse failure before any line is emitted.
C9_MalformedArgumentPanics ==
    (pc # "start" /\ Len(args) = 2 /\ ~WellFormed(args[2], LowerPrefix)) =>
        /\ pc = "panic"
        /\ output = <<>>

---------------------------------------------------------------------------
(* What main does with the arguments of C8 and C9 *)

\* With the prefix 0x or none, the hexadecimal digits of a 64-bit value are
\* parsed to that value (the part of C8 the code does satisfy).
C8_LowerPrefixedHexIsParsed ==
    (pc # "start" /\ Len(args) = 2 /\ WellFormed(args[2], LowerPrefix)) =>
        /\ pc # "panic"
        /\ polynomial = HexNumber(Unprefixed(args[2], LowerPrefix))

\* The arguments main accepts: the prefix 0x any number of times, one
\* optional +, then one or more hexadecimal digits of a 64-bit value.
RECURSIVE Accepted(_)
Accepted(arg) ==
    IF Len(arg) >= 2 /\ SubSeq(arg, 1, 2) \in LowerPrefix
    THEN Accepted(SubSeq(arg, 3, Len(arg)))
    ELSE WellFormed(IF Len(arg) >= 1 /\ arg[1] = "+" THEN Tail(arg) ELSE arg, {})

\* Every other argument ends the program with the parse failure and no
\* output (the part of C9 the code does satisfy).
C9_UnacceptedArgumentPanics ==
    (pc # "start" /\ Len(args) = 2) =>
        (Accepted(args[2]) <=> pc # "panic") /\ (pc = "panic" => output = <<>>)

====
